---------------------------- MODULE Spec2Model ----------------------------
(***************************************************************************)
(* The proof orchestration and aggregation layer of scroll-zkevm:          *)
(*   zkevm/src/prover/outer_circuit.rs  (Prover's outer-circuit API)       *)
(*   bin/src/prove.rs                   (the command-line driver)          *)
(*                                                                         *)
(* The proving backend (circuits, commitments, keys) is opaque: each       *)
(* backend call is a deterministic function of the values and of the       *)
(* randomness stream it is handed, and is modelled as the record of those  *)
(* inputs.  The randomness stream is the XorShiftRng the code names        *)
(* (xorshift128, 32-bit words), kept at its full width.                    *)
(***************************************************************************)
EXTENDS Integers, Sequences, FiniteSets, TLC

\* ------------------------------------------------------------------ bounds
\* Longest inner_circuit_results slice handed to create_agg_circuit_proof_impl.
MaxInner == 2
\* Largest block count (num_of_proved_blocks, total_num_of_blocks) of one proof.
MaxBlocks == 2
\* Calls made to one Prover in the library-level specification.
MaxCalls == 3
\* Most 32-bit words one backend proving call draws from the parent stream.
MaxBackendDraws == 1
\* Largest value of the varied bytes of a parent seed (SeedSpace).
MaxSeedByte == 9

\* ------------------------------------------------------- program constants
\* [0u8; 16]: the length of a sub-seed, and of XorShiftRng::Seed.
SeedLen == 16

\* ----------------------------------------------------------- Option/Result
None == <<>>
Some(v) == <<v>>
IsSome(o) == o # <<>>
Unwrap(o) == o[1]

Ok(v) == [ok |-> TRUE, val |-> v]
Err(e) == [ok |-> FALSE, err |-> e]

\* ------------------------------------------------------ 32-bit word algebra
\* A u32 is its four base-256 digits, most significant first.
Pow2(j) == CASE j = 0 -> 1 [] j = 1 -> 2 [] j = 2 -> 4 [] j = 3 -> 8
             [] j = 4 -> 16 [] j = 5 -> 32 [] j = 6 -> 64 [] j = 7 -> 128
             [] j = 8 -> 256

\* The digit of weight 256^j of w (zero outside the word).
Digit(w, j) == IF j \in 0..3 THEN w[4 - j] ELSE 0

ZeroWord == <<0, 0, 0, 0>>

\* a ^ b on 4-bit values, bit by bit.
XorNibble ==
    [a \in 0..15 |-> [b \in 0..15 |->
        ((a + b) % 2)
        + 2 * (((a \div 2) + (b \div 2)) % 2)
        + 4 * (((a \div 4) + (b \div 4)) % 2)
        + 8 * (((a \div 8) + (b \div 8)) % 2)]]

XorByte(a, b) ==
    16 * XorNibble[a \div 16][b \div 16] + XorNibble[a % 16][b % 16]

\* a ^ b
Xor(a, b) ==
    <<XorByte(a[1], b[1]), XorByte(a[2], b[2]),
      XorByte(a[3], b[3]), XorByte(a[4], b[4])>>

\* a << k on u32: the bits shifted past bit 31 are lost.
ShlDigit(a, k, j) ==
    ((Digit(a, j - (k \div 8)) * Pow2(k % 8)) % 256)
    + (Digit(a, j - (k \div 8) - 1) \div Pow2(8 - (k % 8)))
Shl(a, k) == <<ShlDigit(a, k, 3), ShlDigit(a, k, 2), ShlDigit(a, k, 1), ShlDigit(a, k, 0)>>

\* a >> k on u32.
ShrDigit(a, k, j) ==
    (Digit(a, j + (k \div 8)) \div Pow2(k % 8))
    + ((Digit(a, j + (k \div 8) + 1) * Pow2(8 - (k % 8))) % 256)
Shr(a, k) == <<ShrDigit(a, k, 3), ShrDigit(a, k, 2), ShrDigit(a, k, 1), ShrDigit(a, k, 0)>>

\* le::read_u32_into: word k (0-based) of a byte string, little endian.
ReadU32LE(bytes, k) ==
    <<bytes[4 * k + 4], bytes[4 * k + 3], bytes[4 * k + 2], bytes[4 * k + 1]>>

\* u32::to_le_bytes: the least significant digit first.
ToLeBytes(w) == <<w[4], w[3], w[2], w[1]>>

\* ------------------------------------------------------------- XorShiftRng
\* An XorShiftRng is its words x, y, z, w, held as their 16 little-endian
\* bytes s, with n, the number of words drawn since seeding (the generator
\* does not hold n: it names the position reached in the stream).
XorShiftRng(x, y, z, w, n) ==
    [s |-> ToLeBytes(x) \o ToLeBytes(y) \o ToLeBytes(z) \o ToLeBytes(w),
     n |-> n]

\* 0x0BAD5EED, the word a zero seed is replaced by.
BadSeedWord == <<11, 173, 94, 237>>

\* The same constructor without the zero-seed replacement.
XorShiftFromSeedNoZeroGuard(seed) ==
    XorShiftRng(ReadU32LE(seed, 0), ReadU32LE(seed, 1),
                ReadU32LE(seed, 2), ReadU32LE(seed, 3), 0)

\* XorShiftRng::from_seed: read_u32_into, then the zero-seed replacement.
XorShiftFromSeed(seed) ==
    LET u == <<ReadU32LE(seed, 0), ReadU32LE(seed, 1),
               ReadU32LE(seed, 2), ReadU32LE(seed, 3)>>
    IN  IF \A k \in 1..4 : u[k] = ZeroWord
        THEN XorShiftRng(BadSeedWord, BadSeedWord, BadSeedWord, BadSeedWord, 0)
        ELSE XorShiftRng(u[1], u[2], u[3], u[4], 0)

\* XorShiftRng::next_u32: the stream after the draw; the word drawn is its w.
NextU32(r) ==
    LET x == ReadU32LE(r.s, 0)
        y == ReadU32LE(r.s, 1)
        z == ReadU32LE(r.s, 2)
        w == ReadU32LE(r.s, 3)
        t == Xor(x, Shl(x, 11))
    IN  XorShiftRng(y, z, w, Xor(Xor(w, Shr(w, 19)), Xor(t, Shr(t, 8))), r.n + 1)

\* The word the last next_u32 returned, as to_le_bytes writes it.
DrawnBytes(r) == SubSeq(r.s, 13, 16)

RECURSIVE Skip(_, _)
\* k draws of next_u32 whose values are consumed by the backend.
Skip(r, k) == IF k = 0 THEN r ELSE Skip(NextU32(r), k - 1)

\* fill_bytes on a copy of the stream: the caller's stream is left where it was.
FillBytesOnCopy(r) ==
    LET r1 == NextU32(r)   r2 == NextU32(r1)
        r3 == NextU32(r2)  r4 == NextU32(r3)
    IN  [bytes |-> DrawnBytes(r1) \o DrawnBytes(r2)
                   \o DrawnBytes(r3) \o DrawnBytes(r4),
         rng |-> r]

\* rng.fill_bytes(&mut [0u8; 16]): four next_u32 draws, each written little
\* endian (fill_bytes_via_next); yields the bytes and the advanced stream.
FillBytes(r) ==
    LET r1 == NextU32(r)   r2 == NextU32(r1)
        r3 == NextU32(r2)  r4 == NextU32(r3)
    IN  [bytes |-> DrawnBytes(r1) \o DrawnBytes(r2)
                   \o DrawnBytes(r3) \o DrawnBytes(r4),
         rng |-> r4]

\* ------------------------------------------------------ the opaque backend
\* Parameters loaded for *DEGREE and for *AGG_DEGREE.
params == "params(DEGREE)"
agg_params == "params(AGG_DEGREE)"

\* AggregationCircuit::new(params, snarks, rng): a function of what it is given.
AggregationCircuitNew(ps, snarks, r) ==
    [params |-> ps, snarks |-> snarks, rng |-> r]

\* CircuitExt::instances of the aggregation circuit.
Instances(circuit) == [instances_of |-> circuit]

\* gen_evm_proof_shplonk(params, pk, circuit, instances, rng).
GenEvmProofShplonk(ps, pk, circuit, instances, r) ==
    [params |-> ps, pk |-> pk, circuit |-> circuit,
     instances |-> instances, rng |-> r]

\* serialize_fr_tensor(&[instances]) then serde_json::to_vec.
InstanceBytes(instances) == [json |-> <<instances>>]

\* serialize_vk(pk.get_vk()).
VkBytes(pk) == [vk_of |-> pk]

\* A TargetCircuitProof of circuit c proving p of t blocks.
TargetCircuitProof(c, p, t) ==
    [proof |-> <<"proof", c>>, snark |-> <<"snark", c>>,
     num_of_proved_blocks |-> p, total_num_of_blocks |-> t]

\* What a successful inner proving call can return: proved <= total.
ProvedResults(c) ==
    {TargetCircuitProof(c, pt[1], pt[2]) :
        pt \in {q \in (0..MaxBlocks) \X (0..MaxBlocks) : q[1] <= q[2]}}

\* What a caller of the public create_agg_circuit_proof_impl can pass: any
\* counts (TargetCircuitProof is a plain deserialisable struct).
AnyResults ==
    {TargetCircuitProof("SuperCircuit", p, t) :
        p \in 0..MaxBlocks, t \in 0..MaxBlocks}

RECURSIVE SeqsUpTo(_, _)
SeqsUpTo(S, k) ==
    IF k = 0 THEN {<<>>}
    ELSE LET shorter == SeqsUpTo(S, k - 1)
         IN  shorter \cup {Append(q, e) : q \in {x \in shorter : Len(x) = k - 1}, e \in S}

InnerSlices == SeqsUpTo(AnyResults, MaxInner)

\* The slices passed when the Prover is called again and again: whole and
\* partial batches of one block.
RepeatSlices ==
    SeqsUpTo({TargetCircuitProof("SuperCircuit", 1, 1),
              TargetCircuitProof("SuperCircuit", 0, 1)}, MaxInner)

\* ----------------------------------------------------------- batch accounting
RECURSIVE SumTotalBlocks(_)
\* inner_circuit_results.iter().map(|x| x.total_num_of_blocks).sum()
SumTotalBlocks(results) ==
    IF results = <<>> THEN 0
    ELSE Head(results).total_num_of_blocks + SumTotalBlocks(Tail(results))

\* The accounting that reports the blocks submitted instead of the blocks
\* proved: what total_proved_block_count must not be.
SumProvedBlocksOfTotals(results) == SumTotalBlocks(results)

RECURSIVE SumProvedBlocks(_)
\* inner_circuit_results.iter().map(|x| x.num_of_proved_blocks).sum()
SumProvedBlocks(results) ==
    IF results = <<>> THEN 0
    ELSE Head(results).num_of_proved_blocks + SumProvedBlocks(Tail(results))

\* ---------------------------------------------------------------- the state
VARIABLES
    seed,         \* the 16 bytes load_or_create_seed yields
    rng,          \* the parent randomness stream (an XorShiftRng)
    agg_pk,       \* Prover.agg_pk: Option<ProvingKey>
    debug_dir,    \* Prover.debug_dir: String
    pc,           \* where the Prover call in progress stands ("ready": none)
    op,           \* the Prover operation last called
    inner,        \* inner_circuit_results of create_agg_circuit_proof_impl
    seed1, seed2, \* the two sub-seeds (None until drawn)
    rng1, rng2,   \* the two sub-streams (None until seeded, or once moved)
    agg_circuit,  \* the AggregationCircuit (None until built)
    agg_proof,    \* the bytes gen_evm_proof_shplonk returned (None until then)
    ret,          \* what the last call returned (None: nothing yet)
    panic,        \* the message the process panicked with (None: running)
    hist,         \* bookkeeping of the calls made (not program state)
    mainpc,       \* where main stands ("off": the Prover is used as a library)
    args,         \* the --evm, --state and --agg flags: Option<bool> each
    files,        \* the artifacts written beside the trace path
    invoked,      \* the artifacts main has invoked proving for
    run,          \* which of two independent runs is executing (1 or 2)
    first         \* the first run's outcome, kept for comparison

proverVars == <<seed, rng, agg_pk, debug_dir>>
callVars == <<pc, op, inner, seed1, seed2, rng1, rng2, agg_circuit, agg_proof, ret>>
mainVars == <<mainpc, args, files, invoked>>
runVars == <<run, first>>
vars == <<proverVars, callVars, panic, hist, mainVars, runVars>>

Running == panic = None


\* ----------------------------------------------------------------- seeds
ZeroSeed == [i \in 1..SeedLen |-> 0]
\* 0x0BAD5EED in each word, and 0xFF in each byte.
BadSeed == [i \in 1..SeedLen |-> <<237, 94, 173, 11>>[((i - 1) % 4) + 1]]
OnesSeed == [i \in 1..SeedLen |-> 255]
\* The seeds whose words have a low byte in 0..MaxSeedByte and zeros above it.
LowByteSeeds ==
    {[i \in 1..SeedLen |-> IF (i - 1) % 4 = 0 THEN b[((i - 1) \div 4) + 1] ELSE 0] :
        b \in [1..4 -> 0..MaxSeedByte]}
SeedSpace == LowByteSeeds \cup {BadSeed, OnesSeed}
\* The seeds of the specifications that are not about the seed itself.
MainSeeds == {ZeroSeed, OnesSeed}

\* ------------------------------------------------------------ initial states
NoCall ==
    /\ pc = "ready" /\ op = "none" /\ inner = <<>>
    /\ seed1 = None /\ seed2 = None /\ rng1 = None /\ rng2 = None
    /\ agg_circuit = None /\ agg_proof = None /\ ret = None
    /\ panic = None
    /\ hist = [calls |-> 0, entry |-> 0, prevEntry |-> -1, aggDone |-> 0,
               innerCalls |-> 0, proveCalls |-> 0]

\* A Prover built by Prover::from_params_and_rng over a stream seeded from
\* `seed`, used as a library.  agg_pk and debug_dir are public fields the two
\* files only read: whoever owns the Prover has set them, or has not.
Init ==
    /\ seed \in MainSeeds
    /\ rng = XorShiftFromSeed(seed)
    /\ agg_pk \in {None, Some("agg_pk")}
    /\ debug_dir \in {"", "debug"}
    /\ NoCall
    /\ mainpc = "off" /\ args = <<>> /\ files = {} /\ invoked = {}
    /\ run = 1 /\ first = None

\* ------------------------------------------------------- Prover operations
\* The locals of a call that is starting.
FreshCall(name, at) ==
    /\ op' = name
    /\ pc' = at
    /\ seed1' = None /\ seed2' = None /\ rng1' = None /\ rng2' = None
    /\ agg_circuit' = None /\ agg_proof' = None /\ ret' = None

\* The locals of a call that has no aggregation step.
NoLocals ==
    /\ inner' = <<>>
    /\ seed1' = None /\ seed2' = None /\ rng1' = None /\ rng2' = None
    /\ agg_circuit' = None /\ agg_proof' = None

\* let mut seed1 = [0u8; 16]; rng.fill_bytes(&mut seed1);
DrawSeed1 ==
    /\ Running /\ pc = "seed1"
    /\ LET f == FillBytes(rng)
       IN  seed1' = Some(f.bytes) /\ rng' = f.rng
    /\ pc' = "seed2"
    /\ UNCHANGED <<seed, agg_pk, debug_dir, op, inner, seed2, rng1, rng2,
                   agg_circuit, agg_proof, ret, panic, hist, mainVars, runVars>>

\* let mut seed2 = [0u8; 16]; rng.fill_bytes(&mut seed2);
DrawSeed2 ==
    /\ Running /\ pc = "seed2"
    /\ LET f == FillBytes(rng)
       IN  seed2' = Some(f.bytes) /\ rng' = f.rng
    /\ pc' = "from_seed"
    /\ UNCHANGED <<seed, agg_pk, debug_dir, op, inner, seed1, rng1, rng2,
                   agg_circuit, agg_proof, ret, panic, hist, mainVars, runVars>>

\* A sub-stream seeded from what this run's clock reads instead of the sub-seed.
SubStreamFromClock(s) == XorShiftFromSeed([i \in 1..SeedLen |-> run])

\* XorShiftRng::from_seed(seed1), XorShiftRng::from_seed(seed2).
SubStream(s) == XorShiftFromSeed(s)

\* let rng1 = ...from_seed(seed1); let mut rng2 = ...from_seed(seed2);
SeedSubStreams ==
    /\ Running /\ pc = "from_seed"
    /\ rng1' = Some(SubStream(Unwrap(seed1)))
    /\ rng2' = Some(SubStream(Unwrap(seed2)))
    /\ pc' = "agg_circuit"
    /\ UNCHANGED <<proverVars, op, inner, seed1, seed2, agg_circuit, agg_proof,
                   ret, panic, hist, mainVars, runVars>>

\* The stream handed to AggregationCircuit::new: rng1, by value.
CircuitRng == Unwrap(rng1)

\* AggregationCircuit::new(&self.agg_params, snarks of the inner results, rng1)
BuildAggCircuit ==
    /\ Running /\ pc = "agg_circuit"
    /\ agg_circuit' = Some(AggregationCircuitNew(
                          agg_params,
                          [i \in 1..Len(inner) |-> inner[i].snark],
                          CircuitRng))
    /\ rng1' = None
    /\ pc' = "pk"
    /\ UNCHANGED <<proverVars, op, inner, seed1, seed2, rng2, agg_proof,
                   ret, panic, hist, mainVars, runVars>>

\* match self.agg_pk.clone() { Some(pk) => pk, None => panic!(..) }
CheckPk ==
    /\ Running /\ pc = "pk"
    /\ IF IsSome(agg_pk)
       THEN pc' = "gen_proof" /\ panic' = None
       ELSE pc' = "pk" /\ panic' = Some("aggregation proving key is not found")
    /\ UNCHANGED <<proverVars, op, inner, seed1, seed2, rng1, rng2, agg_circuit,
                   agg_proof, ret, hist, mainVars, runVars>>

\* A clone of the first sub-stream handed to proof generation as well.
ProofRngShared == XorShiftFromSeed(Unwrap(seed1))

\* The stream handed to gen_evm_proof_shplonk: &mut rng2.
ProofRng == Unwrap(rng2)

\* gen_evm_proof_shplonk(&self.agg_params, &pk, agg_circuit.clone(),
\*                       agg_circuit.instances(), &mut rng2)
GenProof ==
    /\ Running /\ pc = "gen_proof"
    /\ agg_proof' = Some(GenEvmProofShplonk(
                        agg_params, Unwrap(agg_pk), Unwrap(agg_circuit),
                        Instances(Unwrap(agg_circuit)), ProofRng))
    /\ hist' = [hist EXCEPT !.proveCalls = @ + 1]
    /\ pc' = "account"
    /\ UNCHANGED <<proverVars, op, inner, seed1, seed2, rng1, rng2, agg_circuit,
                   ret, panic, mainVars, runVars>>

\* The accounting, the serialisation and the Ok(AggCircuitProof { .. }); the
\* `?` on serde_json::to_vec is the one error this function returns.
Assemble ==
    /\ Running /\ pc = "account"
    /\ \E serialised \in BOOLEAN :
         IF serialised
         THEN /\ ret' = Some(Ok(
                    [proof |-> Unwrap(agg_proof),
                     instance |-> InstanceBytes(Instances(Unwrap(agg_circuit))),
                     vk |-> VkBytes(Unwrap(agg_pk)),
                     total_proved_block_count |-> SumProvedBlocks(inner)]))
              /\ hist' = [hist EXCEPT !.prevEntry = hist.entry, !.aggDone = @ + 1]
         ELSE /\ ret' = Some(Err("serde_json"))
              /\ hist' = hist
    /\ pc' = "ready"
    /\ UNCHANGED <<proverVars, op, inner, seed1, seed2, rng1, rng2, agg_circuit,
                   agg_proof, panic, mainVars, runVars>>

\* The circuit_results vector create_agg_circuit_proof_batch builds, with the
\* inner proof pushed twice.
BatchResultsTwice(p) == <<p, p>>

\* vec![self.prove_inner_circuit::<SuperCircuit>(block_traces, rng)?]
BatchResults(p) == <<p>>

\* create_agg_circuit_proof_batch, up to the call of the impl: the inner
\* proving call draws from the parent stream and returns a proof or an error,
\* and `?` returns the error to the caller.
ProveInner ==
    /\ Running /\ pc = "inner"
    /\ \E k \in 0..MaxBackendDraws :
       /\ rng' = Skip(rng, k)
       /\ \/ /\ ret' = Some(Err("ProvingError"))
             /\ pc' = "ready"
             /\ inner' = inner
             /\ hist' = [hist EXCEPT !.innerCalls = @ + 1]
          \/ \E p \in ProvedResults("SuperCircuit") :
             /\ inner' = BatchResults(p)
             /\ pc' = "seed1"
             /\ ret' = None
             /\ hist' = [hist EXCEPT !.innerCalls = @ + 1, !.entry = rng.n + k]
    /\ UNCHANGED <<seed, agg_pk, debug_dir, op, seed1, seed2, rng1, rng2,
                   agg_circuit, agg_proof, panic, mainVars, runVars>>

ImplStep ==
    \/ DrawSeed1
    \/ DrawSeed2
    \/ SeedSubStreams
    \/ BuildAggCircuit
    \/ CheckPk
    \/ GenProof
    \/ Assemble


ProverStep == ProveInner \/ ImplStep

\* --------------------------------------------- the Prover used as a library
CanCall == Running /\ mainpc = "off" /\ pc = "ready" /\ hist.calls < MaxCalls

StartCall(n) ==
    [hist EXCEPT !.calls = @ + 1, !.entry = n, !.innerCalls = 0, !.proveCalls = 0]

\* A caller hands create_agg_circuit_proof_impl a slice of inner results.
CallImpl ==
    /\ CanCall
    /\ \E slice \in RepeatSlices : inner' = slice
    /\ FreshCall("impl", "seed1")
    /\ hist' = StartCall(rng.n)
    /\ UNCHANGED <<proverVars, panic, mainVars, runVars>>

\* A caller hands create_agg_circuit_proof_batch a slice of block traces.
CallBatch ==
    /\ CanCall
    /\ inner' = <<>>
    /\ FreshCall("batch", "inner")
    /\ hist' = StartCall(rng.n)
    /\ UNCHANGED <<proverVars, panic, mainVars, runVars>>

\* Prover::create_target_circuit_proof_batch::<C>(traces): the backend proves
\* with the Prover's stream and returns a proof (proved <= total) or an error.
TargetProve(c) ==
    \E k \in 0..MaxBackendDraws :
    /\ rng' = Skip(rng, k)
    /\ \/ ret' = Some(Err("ProvingError"))
       \/ \E p \in ProvedResults(c) : ret' = Some(Ok(p))

CallTarget ==
    /\ CanCall
    /\ TargetProve("EvmCircuit")
    /\ op' = "target"
    /\ NoLocals
    /\ hist' = StartCall(rng.n)
    /\ UNCHANGED <<seed, agg_pk, debug_dir, pc, panic, mainVars, runVars>>

\* The assertion of load_aggregation_circuit_instance, left out.
DebugDirAssertDropped(dir) == TRUE

\* assert!(!self.debug_dir.is_empty())
DebugDirAssert(dir) == dir # ""

\* load_aggregation_circuit_instance::<C>(): the assertion, File::open(..)?,
\* serde_json::from_reader(file)?, Ok(proof).
CallLoad ==
    /\ CanCall
    /\ op' = "load"
    /\ hist' = StartCall(rng.n)
    /\ IF DebugDirAssert(debug_dir)
       THEN /\ panic' = None
            /\ \/ ret' = Some(Err("io"))
               \/ ret' = Some(Err("serde_json"))
               \/ \E p \in ProvedResults("SuperCircuit") : ret' = Some(Ok(p))
       ELSE /\ panic' = Some("assertion failed: !self.debug_dir.is_empty()")
            /\ ret' = None
    /\ NoLocals
    /\ UNCHANGED <<proverVars, pc, mainVars, runVars>>

Next == CallImpl \/ CallBatch \/ CallTarget \/ CallLoad \/ ProverStep

Spec == Init /\ [][Next]_vars


\* ----------------------------------------------------- the driver (main)
\* Option<bool>: a flag absent, or present with its value.
Flags == {None, Some(TRUE), Some(FALSE)}

\* The artifacts' paths beside the trace path.
EvmProofPath == "evm.proof"
\* The state block writing to the path of the block below it.
StateProofPathOfAgg == "agg.proof"
StateProofPath == "state.proof"
AggProofPath == "agg.proof"

\* The process before main runs: the command line is given, the seed file
\* holds `seed`, no Prover exists yet and nothing has been written.
InitDriver ==
    /\ seed \in MainSeeds
    /\ rng = None
    /\ agg_pk = None
    /\ debug_dir = ""
    /\ NoCall
    /\ mainpc = "params"
    /\ args \in [evm : Flags, state : Flags, agg : Flags]
    /\ files = {} /\ invoked = {}
    /\ run = 1 /\ first = None

AtMain(at) == Running /\ mainpc = at /\ pc = "ready"

\* A load of main that .expect(msg)s its result.
LoadOrPanic(next, msg) ==
    /\ \E loaded \in BOOLEAN :
         IF loaded
         THEN mainpc' = next /\ panic' = None
         ELSE mainpc' = mainpc /\ panic' = Some(msg)
    /\ UNCHANGED <<proverVars, callVars, hist, args, files, invoked, runVars>>

\* load_or_create_params(&params_path, *DEGREE).expect(..)
LoadParams ==
    /\ AtMain("params")
    /\ LoadOrPanic("agg_params", "failed to load or create params")

\* load_or_create_params(&params_path, *AGG_DEGREE).expect(..)
LoadAggParams ==
    /\ AtMain("agg_params")
    /\ LoadOrPanic("seed", "failed to load or create params")

\* load_or_create_seed(&seed_path).expect(..)
LoadSeed ==
    /\ AtMain("seed")
    /\ LoadOrPanic("new", "failed to load or create seed")

\* XorShiftRng::from_seed(seed); Prover::from_params_and_rng(params,
\* agg_params, rng).  The aggregation key is a field nothing in main assigns:
\* the Prover's own code has provisioned it by the time it is read, or not.
NewProver ==
    /\ AtMain("new")
    /\ rng' = XorShiftFromSeed(seed)
    /\ agg_pk' \in {None, Some("agg_pk")}
    /\ debug_dir' = ""
    /\ mainpc' = "traces"
    /\ UNCHANGED <<seed, callVars, panic, hist, args, files, invoked, runVars>>

\* The traces are read from the file or the directory (opaque values).
LoadTraces ==
    /\ AtMain("traces")
    /\ mainpc' = "evm"
    /\ UNCHANGED <<proverVars, callVars, panic, hist, args, files, invoked, runVars>>

\* Writing whenever the flag is present.
WriteRequestedIfPresent(flag) == IsSome(flag)

\* if args.evm_proof.unwrap() { .. }: the flag's value.
WriteRequested(flag) == Unwrap(flag)

\* if args.<flag>.is_some() { create_target_circuit_proof_batch::<C>(&traces)
\*   .expect(msg); .. }, up to the test of the flag's value.
TargetBlock(name, flag, c, msg, write, next) ==
    /\ IF flag = None
       THEN /\ mainpc' = next
            /\ UNCHANGED <<rng, op, ret, panic, invoked>>
       ELSE /\ invoked' = invoked \cup {name}
            /\ op' = "target"
            /\ TargetProve(c)
            /\ IF ret'[1].ok
               THEN /\ panic' = None
                    /\ mainpc' = IF WriteRequested(flag) THEN write ELSE next
               ELSE /\ panic' = Some(msg)
                    /\ mainpc' = mainpc
    /\ UNCHANGED <<seed, agg_pk, debug_dir, pc, inner, seed1, seed2, rng1, rng2,
                   agg_circuit, agg_proof, hist, args, files, runVars>>

\* File::create(&proof_path).unwrap(); f.write_all(..).unwrap();
WriteProof(path, next) ==
    /\ \E written \in BOOLEAN :
         IF written
         THEN files' = files \cup {path} /\ mainpc' = next /\ panic' = None
         ELSE /\ files' = files /\ mainpc' = mainpc
              /\ panic' = Some("called Result::unwrap() on an Err value")
    /\ UNCHANGED <<proverVars, callVars, hist, args, invoked, runVars>>

EvmBlock ==
    /\ AtMain("evm")
    /\ TargetBlock("evm", args.evm, "EvmCircuit", "cannot generate evm_proof",
                   "evm_write", "state")

EvmWrite == AtMain("evm_write") /\ WriteProof(EvmProofPath, "state")

StateBlock ==
    /\ AtMain("state")
    /\ TargetBlock("state", args.state, "StateCircuit",
                   "cannot generate state_proof", "state_write", "agg")

StateWrite == AtMain("state_write") /\ WriteProof(StateProofPath, "agg")

\* if args.agg_proof.is_some() { prover.create_agg_circuit_proof_batch(&traces)
AggBlock ==
    /\ AtMain("agg")
    /\ IF args.agg = None
       THEN /\ mainpc' = "done"
            /\ UNCHANGED <<callVars, hist, invoked>>
       ELSE /\ invoked' = invoked \cup {"agg"}
            /\ inner' = <<>>
            /\ FreshCall("batch", "inner")
            /\ hist' = StartCall(rng.n)
            /\ mainpc' = "agg_call"
    /\ UNCHANGED <<proverVars, panic, args, files, runVars>>

\* .expect("cannot generate agg_proof"), then the test of the flag's value.
AggReturn ==
    /\ AtMain("agg_call") /\ ret # None
    /\ IF ret[1].ok
       THEN /\ panic' = None
            /\ mainpc' = IF WriteRequested(args.agg) THEN "agg_write" ELSE "done"
       ELSE /\ panic' = Some("cannot generate agg_proof")
            /\ mainpc' = mainpc
    /\ UNCHANGED <<proverVars, callVars, hist, args, files, invoked, runVars>>

\* fs::create_dir_all(&proof_path).unwrap(); agg_proof.write_to_dir(..);
AggWrite == AtMain("agg_write") /\ WriteProof(AggProofPath, "done")

MainStep ==
    \/ LoadParams \/ LoadAggParams \/ LoadSeed \/ NewProver \/ LoadTraces
    \/ EvmBlock \/ EvmWrite \/ StateBlock \/ StateWrite
    \/ AggBlock \/ AggReturn \/ AggWrite

NextDriver == MainStep \/ ProverStep

SpecDriver == InitDriver /\ [][NextDriver]_vars

\* ------------------------------------------- two runs of the aggregation
\* create_agg_circuit_proof_impl entered on a Prover whose stream was just
\* seeded from `seed`, with a slice of inner results.
InitRuns ==
    /\ seed \in MainSeeds
    /\ rng = XorShiftFromSeed(seed)
    /\ agg_pk \in {None, Some("agg_pk")}
    /\ debug_dir = ""
    /\ inner \in InnerSlices
    /\ pc = "seed1" /\ op = "impl"
    /\ seed1 = None /\ seed2 = None /\ rng1 = None /\ rng2 = None
    /\ agg_circuit = None /\ agg_proof = None /\ ret = None
    /\ panic = None
    /\ hist = [calls |-> 1, entry |-> 0, prevEntry |-> -1, aggDone |-> 0,
               innerCalls |-> 0, proveCalls |-> 0]
    /\ mainpc = "off" /\ args = <<>> /\ files = {} /\ invoked = {}
    /\ run = 1 /\ first = None

\* The second, independent run: a new process seeds its stream from the same
\* seed and enters the impl with the same key and the same inner results.
SecondRun ==
    /\ Running /\ pc = "ready" /\ ret # None /\ run = 1
    /\ first' = ret
    /\ run' = 2
    /\ rng' = XorShiftFromSeed(seed)
    /\ FreshCall("impl", "seed1")
    /\ hist' = [calls |-> 1, entry |-> 0, prevEntry |-> -1, aggDone |-> 0,
                innerCalls |-> 0, proveCalls |-> 0]
    /\ UNCHANGED <<seed, agg_pk, debug_dir, inner, panic, mainVars>>

NextRuns == ImplStep \/ SecondRun

SpecRuns == InitRuns /\ [][NextRuns]_vars

\* ------------------------------------------------ the sub-seeds of a seed
InitSeeds ==
    /\ seed \in SeedSpace
    /\ rng = XorShiftFromSeed(seed)
    /\ agg_pk = None
    /\ debug_dir = ""
    /\ inner = <<>>
    /\ pc = "seed1" /\ op = "impl"
    /\ seed1 = None /\ seed2 = None /\ rng1 = None /\ rng2 = None
    /\ agg_circuit = None /\ agg_proof = None /\ ret = None
    /\ panic = None
    /\ hist = [calls |-> 1, entry |-> 0, prevEntry |-> -1, aggDone |-> 0,
               innerCalls |-> 0, proveCalls |-> 0]
    /\ mainpc = "off" /\ args = <<>> /\ files = {} /\ invoked = {}
    /\ run = 1 /\ first = None

NextSeeds == DrawSeed1 \/ DrawSeed2 \/ SeedSubStreams

SpecSeeds == InitSeeds /\ [][NextSeeds]_vars


\* ================================================================ claims
PkPanic == Some("aggregation proving key is not found")
ParamsPanic == Some("failed to load or create params")
SeedPanic == Some("failed to load or create seed")
AssertPanic == Some("assertion failed: !self.debug_dir.is_empty()")

\* An aggregation call has returned Ok(AggCircuitProof).
AggReturnedOk ==
    /\ pc = "ready" /\ op \in {"impl", "batch"}
    /\ ret # None /\ ret[1].ok

\* The aggregation steps that follow the entry of the impl.
InImpl == pc \in {"seed1", "seed2", "from_seed", "agg_circuit", "pk",
                  "gen_proof", "account"}

RECURSIVE SumTo(_, _)
\* f[1] + ... + f[n]
SumTo(f, n) == IF n = 0 THEN 0 ELSE SumTo(f, n - 1) + f[n]

\* C1: whenever create_agg_circuit_proof_impl returns Ok, for any slice of
\* inner results (the empty and the one-element slice included), the
\* artifact's total_proved_block_count is the sum of the inner results'
\* num_of_proved_blocks; if every inner result has proved <= total it does
\* not exceed the sum of total_num_of_blocks; and the slice holding one proof
\* with counts 1/1 yields 1.
C1_BatchAccounting ==
    AggReturnedOk =>
        LET count == ret[1].val.total_proved_block_count
            proved == [i \in 1..Len(inner) |-> inner[i].num_of_proved_blocks]
            total == [i \in 1..Len(inner) |-> inner[i].total_num_of_blocks]
        IN  /\ count = SumTo(proved, Len(inner))
            /\ (\A i \in 1..Len(inner) : proved[i] <= total[i])
                   => count <= SumTo(total, Len(inner))
            /\ inner = <<TargetCircuitProof("SuperCircuit", 1, 1)>> => count = 1

C1_Witness ==
    /\ AggReturnedOk
    /\ Len(inner) = 2
    /\ inner[1].num_of_proved_blocks = 1 /\ inner[1].total_num_of_blocks = 2
    /\ inner[2].num_of_proved_blocks = 2 /\ inner[2].total_num_of_blocks = 2
    /\ ret[1].val.total_proved_block_count = 3

\* C2: when create_agg_circuit_proof_impl fails for lack of the aggregation
\* proving key, it has failed before any sub-seed was drawn from the parent
\* stream, before the aggregation circuit was built, and without any call of
\* gen_evm_proof_shplonk.
C2_FailsBeforeAnyWork ==
    panic = PkPanic =>
        /\ rng.n = hist.entry
        /\ seed1 = None /\ seed2 = None
        /\ agg_circuit = None
        /\ hist.proveCalls = 0

C4_SubSeedsDiffer ==
    /\ seed1 # None => Unwrap(seed1) # seed
    /\ seed2 # None => /\ Unwrap(seed2) # seed
                       /\ Unwrap(seed2) # Unwrap(seed1)

C4_Witness == seed = ZeroSeed /\ seed1 # None /\ seed2 # None


\* main has left the block of the artifact behind.
PastEvm == mainpc \in {"state", "state_write", "agg", "agg_call", "agg_write", "done"}
PastState == mainpc \in {"agg", "agg_call", "agg_write", "done"}
PastAgg == mainpc = "done"

\* What C5 says of one artifact: proving is never invoked without the flag
\* and nothing is written unless the flag is true; once main is past the
\* artifact's block, proving was invoked iff the flag is present and the
\* artifact is on disk iff the flag is present with value true.
FlagDecides(name, path, flag, past) ==
    /\ name \in invoked => IsSome(flag)
    /\ path \in files => flag = Some(TRUE)
    /\ past => /\ name \in invoked <=> IsSome(flag)
               /\ path \in files <=> flag = Some(TRUE)

\* C5: in the driver, for each of evm, state and agg: proving for the
\* artifact is invoked iff its flag is present, and the artifact is written
\* iff the flag is present with value true; a flag with value false runs
\* proving and writes nothing.
C5_FlagsDecide ==
    /\ FlagDecides("evm", EvmProofPath, args.evm, PastEvm)
    /\ FlagDecides("state", StateProofPath, args.state, PastState)
    /\ FlagDecides("agg", AggProofPath, args.agg, PastAgg)

C5_Witness ==
    /\ mainpc = "done"
    /\ args = [evm |-> Some(TRUE), state |-> Some(FALSE), agg |-> Some(TRUE)]
    /\ invoked = {"evm", "state", "agg"}
    /\ files = {EvmProofPath, AggProofPath}

\* C6 as stated: a run of the driver that aborts because the parameters, the
\* seed or a proving key could not be had has written none of evm.proof,
\* state.proof and agg.proof.
C6_NoPartialOutput ==
    panic \in {ParamsPanic, SeedPanic, PkPanic} => files = {}

\* C6, amended: a run that aborts on the parameters or the seed has invoked
\* no proving and written nothing; a run that aborts on the missing
\* aggregation proving key has not written agg.proof, and holds evm.proof and
\* state.proof exactly when their flags are true.
C6_AbortOutput ==
    /\ panic \in {ParamsPanic, SeedPanic} => files = {} /\ invoked = {}
    /\ panic = PkPanic =>
         /\ AggProofPath \notin files
         /\ EvmProofPath \in files <=> args.evm = Some(TRUE)
         /\ StateProofPath \in files <=> args.state = Some(TRUE)

C6_Witness ==
    /\ panic = PkPanic
    /\ files = {EvmProofPath, StateProofPath}

\* C7 as stated: load_aggregation_circuit_instance on a Prover with an empty
\* debug_dir returns a NotConfigured error to its caller and does not
\* terminate the process.
C7_ReturnsNotConfigured ==
    (op = "load" /\ debug_dir = "") =>
        /\ panic = None
        /\ ret # None /\ ~ret[1].ok /\ ret[1].err = "NotConfigured"

\* C7, amended: with an empty debug_dir the call panics on its assertion and
\* returns nothing; with a debug_dir set it returns the proof, or an I/O or
\* deserialisation error, and does not panic.
C7_AssertsDebugDir ==
    op = "load" =>
        IF debug_dir = ""
        THEN panic = AssertPanic /\ ret = None
        ELSE /\ panic = None /\ ret # None
             /\ ret[1].ok \/ ret[1].err \in {"io", "serde_json"}

C7_Witness == op = "load" /\ debug_dir = "" /\ panic = AssertPanic

\* The inner proving call of create_agg_circuit_proof_batch has failed.
InnerFailed ==
    op = "batch" /\ pc = "ready" /\ ret # None /\ ~ret[1].ok
    /\ ret[1].err = "ProvingError"

\* C8: create_agg_circuit_proof_batch proves the traces once with the super
\* circuit and runs the impl on exactly the one proof that call returned; if
\* the inner proving fails the error is returned, no sub-seed is drawn, no
\* aggregation proving call is made and no AggCircuitProof is produced.
C8_BatchOneInner ==
    op = "batch" =>
        /\ hist.innerCalls = (IF pc = "inner" THEN 0 ELSE 1)
        /\ (InImpl \/ AggReturnedOk) =>
              /\ Len(inner) = 1
              /\ inner[1] \in ProvedResults("SuperCircuit")
              /\ agg_circuit # None =>
                    Unwrap(agg_circuit).snarks = <<inner[1].snark>>
        /\ InnerFailed =>
              /\ inner = <<>>
              /\ seed1 = None /\ seed2 = None /\ rng1 = None /\ rng2 = None
              /\ agg_circuit = None /\ agg_proof = None
              /\ hist.proveCalls = 0
        /\ AggReturnedOk => hist.proveCalls = 1 /\ agg_proof # None

C8_Witness ==
    /\ op = "batch" /\ AggReturnedOk
    /\ Len(inner) = 1 /\ hist.innerCalls = 1

\* C9: in create_agg_circuit_proof_impl the stream seeded from the first
\* sub-seed goes to the aggregation circuit's construction and to nothing
\* else, the stream seeded from the second goes to the proof generation and
\* to nothing else, each stage receives its stream undrawn (so neither
\* receives the parent stream, which stays where the two draws left it), and
\* both sub-seeds have been drawn from the parent before either sub-stream
\* exists.
C9_RandomnessSeparation ==
    /\ (rng1 # None \/ rng2 # None \/ agg_circuit # None \/ agg_proof # None) =>
          /\ seed1 # None /\ seed2 # None
          /\ rng.n = hist.entry + 8
    /\ agg_circuit # None =>
          /\ Unwrap(agg_circuit).rng = XorShiftFromSeed(Unwrap(seed1))
          /\ Unwrap(agg_circuit).rng # XorShiftFromSeed(Unwrap(seed2))
          /\ rng1 = None
    /\ agg_proof # None =>
          /\ Unwrap(agg_proof).rng = XorShiftFromSeed(Unwrap(seed2))
          /\ Unwrap(agg_proof).rng # XorShiftFromSeed(Unwrap(seed1))
          /\ Unwrap(agg_proof).circuit = Unwrap(agg_circuit)

C9_Witness ==
    /\ AggReturnedOk /\ op = "impl"
    /\ Len(inner) = 2
    /\ agg_circuit # None /\ agg_proof # None

=============================================================================
